---- MODULE Spec2Model ----
(***************************************************************************)
(* A model of scripts/analyze.py: the YAML batch report.  main() creates   *)
(* the output directory, discovers the *.yml / *.yaml files below the      *)
(* input directory, loads, normalizes and validates each one in sorted     *)
(* order, writes summary.csv and summary.json, renders the plots and       *)
(* finally decides the exit status.                                        *)
(*                                                                         *)
(* Python values are tagged records:                                       *)
(*   None           [t |-> "null"]                                         *)
(*   str            [t |-> "str", s |-> <<97, 98>>]   (its code points)   *)
(*   finite number  [t |-> "num", n |-> 3]                                 *)
(*   float nan/inf  [t |-> "nan"], [t |-> "inf"]                           *)
(*   datetime.date  [t |-> "date", y, m, d]                                *)
(*   datetime       [t |-> "datetime", y, m, d, hh, mi, ss]                *)
(*   list           [t |-> "list", items |-> <<...>>]                      *)
(*   dict           [t |-> "map", keys |-> <<...>>, vals |-> <<...>>]      *)
(* A float computed as a quotient is kept exact:                           *)
(*                  [t |-> "float", num |-> 6, den |-> 3]   (is 2.0)       *)
(***************************************************************************)
EXTENDS Integers, Sequences, FiniteSets, TLC

VARIABLES fs, pc, out_dir_created, yaml_files, idx, rows, errors,
          csv, summary_json, plots, date_series, exit_code, exit_msg

vars == <<fs, pc, out_dir_created, yaml_files, idx, rows, errors,
          csv, summary_json, plots, date_series, exit_code, exit_msg>>

\* The largest number of directory entries below the input directory.
MaxFiles == 3

----------------------------------------------------------------------------
(* Strings and paths *)

None == [t |-> "null"]

Str(chars) == [t |-> "str", s |-> chars]

Num(k) == [t |-> "num", n |-> k]

\* ord(c) of the characters the literals below are written with.
ord == [c \in {" ", ",", "-", ".", "/", ":", "0", "1", "2", "3", "4", "5", "6",
               "7", "8", "9", "T", "a", "b", "c", "e", "i", "l", "m", "n", "o",
               "s", "t", "x", "y"} |->
          CASE c = " " -> 32 [] c = "," -> 44 [] c = "-" -> 45 [] c = "." -> 46
            [] c = "/" -> 47 [] c = ":" -> 58
            [] c = "0" -> 48 [] c = "1" -> 49 [] c = "2" -> 50 [] c = "3" -> 51
            [] c = "4" -> 52 [] c = "5" -> 53 [] c = "6" -> 54 [] c = "7" -> 55
            [] c = "8" -> 56 [] c = "9" -> 57 [] c = "T" -> 84
            [] c = "a" -> 97 [] c = "b" -> 98 [] c = "c" -> 99 [] c = "e" -> 101
            [] c = "i" -> 105 [] c = "l" -> 108 [] c = "m" -> 109
            [] c = "n" -> 110 [] c = "o" -> 111 [] c = "s" -> 115
            [] c = "t" -> 116 [] c = "x" -> 120 [] c = "y" -> 121]

\* A string literal as the sequence of its code points.
text(literal) == [i \in 1..Len(literal) |-> ord[literal[i]]]

Min2(a, b) == IF a <= b THEN a ELSE b

\* Python's str.__lt__: code point order, a proper prefix comes first.
str_lt(a, b) ==
    \E k \in 1..(Min2(Len(a), Len(b)) + 1) :
        /\ \A j \in 1..(k - 1) : a[j] = b[j]
        /\ \/ k > Len(a) /\ k <= Len(b)
           \/ k <= Len(a) /\ k <= Len(b) /\ a[k] < b[k]

\* "/".join(parts)
RECURSIVE join_parts(_)
join_parts(parts) ==
    IF Len(parts) = 0 THEN <<>>
    ELSE IF Len(parts) = 1 THEN parts[1]
    ELSE parts[1] \o text(<<"/">>) \o join_parts(Tail(parts))

\* The first part of an absolute path: the root, "/" or "//".
is_root(part) == Len(part) > 0 /\ \A i \in 1..Len(part) : part[i] = ord["/"]

\* A path is the sequence of its components (PurePath.parts).
\* str(p): the root, when there is one, then the other components joined
\* by "/"; "." for the path without components.
path_str(p) ==
    IF Len(p) = 0 THEN text(<<".">>)
    ELSE IF is_root(p[1]) THEN p[1] \o join_parts(Tail(p))
    ELSE join_parts(p)

\* A plausible slip: the paths ordered as plain strings.
path_lt_as_strings(p, q) == str_lt(path_str(p), path_str(q))

\* The order sorted() puts Path objects in: PurePath.__lt__ compares the
\* lists of components, each component as a string.
path_lt(p, q) ==
    \E k \in 1..(Min2(Len(p), Len(q)) + 1) :
        /\ \A j \in 1..(k - 1) : p[j] = q[j]
        /\ \/ k > Len(p) /\ k <= Len(q)
           \/ k <= Len(p) /\ k <= Len(q) /\ str_lt(p[k], q[k])

RECURSIVE sorted(_)
sorted(S) ==
    IF S = {} THEN <<>>
    ELSE LET least == CHOOSE p \in S : \A q \in S \ {p} : path_lt(p, q)
         IN  <<least>> \o sorted(S \ {least})

\* fnmatch of a file name against "*" + suffix.
ends_with(name, suffix) ==
    /\ Len(name) >= Len(suffix)
    /\ SubSeq(name, Len(name) - Len(suffix) + 1, Len(name)) = suffix

\* input_dir.rglob("*.yml") + input_dir.rglob("*.yaml"), as a set.
rglob_yaml(files) ==
    {p \in files : ends_with(p[Len(p)], text(<<".", "y", "m", "l">>))}
      \cup {p \in files : ends_with(p[Len(p)], text(<<".", "y", "a", "m", "l">>))}

----------------------------------------------------------------------------
(* Dates *)

\* The code points of the zero of every run of decimal digits (Unicode
\* category Nd, Unicode 14.0): what \d matches in a str pattern and int()
\* converts. Each run holds the ten digits in order.
decimal_zeros ==
    {48, 1632, 1776, 1984, 2406, 2534, 2662, 2790, 2918, 3046, 3174, 3302,
     3430, 3558, 3664, 3792, 3872, 4160, 4240, 6112, 6160, 6470, 6608, 6784,
     6800, 6992, 7088, 7232, 7248, 42528, 43216, 43264, 43472, 43504, 43600,
     44016, 65296, 66720, 68912, 69734, 69872, 69942, 70096, 70384, 70736,
     70864, 71248, 71360, 71472, 71904, 72016, 72784, 73040, 73120, 92768,
     92864, 93008, 120782, 120792, 120802, 120812, 120822, 123200, 123632,
     125264, 130032}

\* \d
is_digit(c) == \E z \in decimal_zeros : z <= c /\ c <= z + 9

\* int(c) of a decimal digit
digit_val(c) == c - (CHOOSE z \in decimal_zeros : z <= c /\ c <= z + 9)

\* [lo-hi] of ASCII characters
in_range(c, lo, hi) == ord[lo] <= c /\ c <= ord[hi]

\* "%02d"
pad2(k) == <<ord["0"] + ((k \div 10) % 10), ord["0"] + (k % 10)>>

\* "%04d"
pad4(k) == pad2(k \div 100) \o pad2(k % 100)

\* date.isoformat() and datetime.isoformat() (no microseconds, no zone).
isoformat(obj) ==
    LET day == pad4(obj.y) \o text(<<"-">>) \o pad2(obj.m) \o text(<<"-">>)
                 \o pad2(obj.d)
    IN  IF obj.t = "date" THEN day
        ELSE day \o text(<<"T">>) \o pad2(obj.hh) \o text(<<":">>) \o pad2(obj.mi)
                 \o text(<<":">>) \o pad2(obj.ss)

is_leap(y) == y % 4 = 0 /\ (y % 100 # 0 \/ y % 400 = 0)

days_in_month(y, m) ==
    IF m = 2 THEN (IF is_leap(y) THEN 29 ELSE 28)
    ELSE IF m \in {4, 6, 9, 11} THEN 30 ELSE 31

\* strptime's %m, 1[0-2]|0[1-9]|[1-9]: the month, 0 when the token does
\* not match.
month_field(tok) ==
    IF Len(tok) = 2 /\ tok[1] = ord["1"] /\ in_range(tok[2], "0", "2")
      THEN 10 + digit_val(tok[2])
    ELSE IF Len(tok) = 2 /\ tok[1] = ord["0"] /\ in_range(tok[2], "1", "9")
      THEN digit_val(tok[2])
    ELSE IF Len(tok) = 1 /\ in_range(tok[1], "1", "9")
      THEN digit_val(tok[1])
    ELSE 0

\* strptime's %d, 3[0-1]|[1-2]\d|0[1-9]|[1-9]| [1-9]: the day, 0 when the
\* token does not match.
day_field(tok) ==
    IF Len(tok) = 2 /\ tok[1] = ord["3"] /\ in_range(tok[2], "0", "1")
      THEN 30 + digit_val(tok[2])
    ELSE IF Len(tok) = 2 /\ in_range(tok[1], "1", "2") /\ is_digit(tok[2])
      THEN 10 * digit_val(tok[1]) + digit_val(tok[2])
    ELSE IF Len(tok) = 2 /\ tok[1] = ord["0"] /\ in_range(tok[2], "1", "9")
      THEN digit_val(tok[2])
    ELSE IF Len(tok) = 1 /\ in_range(tok[1], "1", "9")
      THEN digit_val(tok[1])
    ELSE IF Len(tok) = 2 /\ tok[1] = ord[" "] /\ in_range(tok[2], "1", "9")
      THEN digit_val(tok[2])
    ELSE 0

\* datetime.strptime(s, "%Y-%m-%d").date(); None when it raises (no match,
\* unconverted data, or a day the calendar does not have).
strptime_ymd(s) ==
    LET dash2 == IF Len(s) >= 7 /\ s[7] = ord["-"] THEN 7 ELSE 8
        shape == /\ Len(s) >= dash2 + 1
                 /\ Len(s) <= dash2 + 2
                 /\ \A i \in 1..4 : is_digit(s[i])
                 /\ s[5] = ord["-"]
                 /\ s[dash2] = ord["-"]
        y == 1000 * digit_val(s[1]) + 100 * digit_val(s[2])
               + 10 * digit_val(s[3]) + digit_val(s[4])
        m == month_field(SubSeq(s, 6, dash2 - 1))
        d == day_field(SubSeq(s, dash2 + 1, Len(s)))
    IN  IF shape /\ y >= 1 /\ m >= 1 /\ d >= 1 /\ d <= days_in_month(y, m)
          THEN [t |-> "date", y |-> y, m |-> m, d |-> d]
          ELSE None

safe_parse_date(date_str) ==
    IF date_str.t # "str" \/ date_str.s = <<>> THEN None
    ELSE strptime_ymd(date_str.s)

date_lt(a, b) ==
    \/ a.y < b.y
    \/ a.y = b.y /\ a.m < b.m
    \/ a.y = b.y /\ a.m = b.m /\ a.d < b.d

----------------------------------------------------------------------------
(* Documents *)

Map(keys, vals) == [t |-> "map", keys |-> keys, vals |-> vals]

List(items) == [t |-> "list", items |-> items]

has_key(obj, key) == \E i \in 1..Len(obj.keys) : obj.keys[i] = key

\* dict.get(key): None when the key is missing.
get(obj, key) ==
    IF has_key(obj, key)
      THEN obj.vals[CHOOSE i \in 1..Len(obj.keys) : obj.keys[i] = key]
      ELSE None

isinstance(obj, type) == obj.t = type

date_2026_01_15 == [t |-> "date", y |-> 2026, m |-> 1, d |-> 15]

str_2026_01_15 == Str(text(<<"2", "0", "2", "6", "-", "0", "1", "-", "1", "5">>))

\* What yaml.safe_load makes of the files that can lie below the input
\* directory; raises marks a file that does not parse.
file_contents == <<
    \* 1  name: a / value: 1 / tags: [x, y]
    [raises |-> FALSE,
     data |-> Map(<<"name", "value", "tags">>,
                  <<Str(text(<<"a">>)), Num(1), List(<<Str(text(<<"x">>)), Str(text(<<"y">>))>>)>>)],
    \* 2  name: a / value: 2
    [raises |-> FALSE,
     data |-> Map(<<"name", "value">>, <<Str(text(<<"a">>)), Num(2)>>)],
    \* 3  name: b / value: 3 / metadata: {date: 2026-01-15}
    [raises |-> FALSE,
     data |-> Map(<<"name", "value", "metadata">>,
                  <<Str(text(<<"b">>)), Num(3), Map(<<"date">>, <<date_2026_01_15>>)>>)],
    \* 4  name: b / value: 3 / metadata: {date: "2026-01-15"}
    [raises |-> FALSE,
     data |-> Map(<<"name", "value", "metadata">>,
                  <<Str(text(<<"b">>)), Num(3), Map(<<"date">>, <<str_2026_01_15>>)>>)],
    \* 5  name: c
    [raises |-> FALSE,
     data |-> Map(<<"name">>, <<Str(text(<<"c">>))>>)],
    \* 6  name: a / value: 1 / tags: x
    [raises |-> FALSE,
     data |-> Map(<<"name", "value", "tags">>,
                  <<Str(text(<<"a">>)), Num(1), Str(text(<<"x">>))>>)],
    \* 7  name: n / value: .nan
    [raises |-> FALSE,
     data |-> Map(<<"name", "value">>, <<Str(text(<<"n">>)), [t |-> "nan"]>>)],
    \* 8  name: a / value: .inf
    [raises |-> FALSE,
     data |-> Map(<<"name", "value">>, <<Str(text(<<"a">>)), [t |-> "inf"]>>)],
    \* 9  name: a / value: 2 / metadata: {date: {year: 2026}}
    [raises |-> FALSE,
     data |-> Map(<<"name", "value", "metadata">>,
                  <<Str(text(<<"a">>)), Num(2),
                    Map(<<"date">>, <<Map(<<"year">>, <<Num(2026)>>)>>)>>)],
    \* 10 not YAML at all
    [raises |-> TRUE, data |-> None],
    \* 11 name: b / value: 1 / metadata: {date: 2026-01-14 10:00:00, by: [a]}
    [raises |-> FALSE,
     data |-> Map(<<"name", "value", "metadata">>,
                  <<Str(text(<<"b">>)), Num(1),
                    Map(<<"date", "by">>,
                        <<[t |-> "datetime", y |-> 2026, m |-> 1, d |-> 14,
                           hh |-> 10, mi |-> 0, ss |-> 0],
                          List(<<Str(text(<<"a">>))>>)>>)>>)],
    \* 12 a sequence at the top level: [a, 2026-01-15]
    [raises |-> FALSE,
     data |-> List(<<Str(text(<<"a">>)), date_2026_01_15>>)],
    \* 13 name: b / value: 2 / metadata: {date: "YYYY-01- 5"}, the year 2026
    \*    written in Arabic-Indic digits (U+0662 U+0660 U+0662 U+0666)
    [raises |-> FALSE,
     data |-> Map(<<"name", "value", "metadata">>,
                  <<Str(text(<<"b">>)), Num(2),
                    Map(<<"date">>,
                        <<Str(<<1634, 1632, 1634, 1638>>
                                \o text(<<"-", "0", "1", "-", " ", "5">>))>>)>>)] >>

\* The entries that can lie below the input directory "in".
dir_entries == {
    << text(<<"a">>), text(<<"x", ".", "y", "m", "l">>) >>,
    << text(<<"a", "-", "b">>), text(<<"x", ".", "y", "m", "l">>) >>,
    << text(<<"b", ".", "y", "a", "m", "l">>) >>,
    << text(<<"n", "o", "t", "e", "s", ".", "t", "x", "t">>) >> }

\* The values of --input: the relative "in" and the absolute "/in".
input_dirs == { << text(<<"i", "n">>) >>, << text(<<"/">>), text(<<"i", "n">>) >> }

\* The paths rglob can return: the input directory, then the entry.
all_paths == {dir \o entry : dir \in input_dirs, entry \in dir_entries}

below(dir, path) == Len(path) > Len(dir) /\ SubSeq(path, 1, Len(dir)) = dir

load_yaml_file(path) == file_contents[fs[path]]

\* A plausible slip: the normalisation step left out.
normalize_dates_skipped(obj) == obj

RECURSIVE normalize_dates(_)
normalize_dates(obj) ==
    IF isinstance(obj, "date") \/ isinstance(obj, "datetime")
      THEN Str(isoformat(obj))
    ELSE IF isinstance(obj, "map")
      THEN Map(obj.keys, [i \in 1..Len(obj.vals) |-> normalize_dates(obj.vals[i])])
    ELSE IF isinstance(obj, "list")
      THEN List([i \in 1..Len(obj.items) |-> normalize_dates(obj.items[i])])
    ELSE obj

----------------------------------------------------------------------------
(* SCHEMA and jsonschema.validate *)

\* The JSON Schema types the schema uses.
is_type(instance, type) ==
    CASE type = "object" -> isinstance(instance, "map")
      [] type = "array"  -> isinstance(instance, "list")
      [] type = "string" -> isinstance(instance, "str")
      [] type = "number" -> instance.t \in {"num", "nan", "inf"}

\* A schema without the tags property.
schema_tags_unchecked(instance) == TRUE

\* "tags": {"type": "array", "items": {"type": "string"}}
schema_tags(instance) ==
    /\ is_type(instance, "array")
    /\ \A i \in 1..Len(instance.items) : is_type(instance.items[i], "string")

\* "date": {"anyOf": [{"type": "string"}, {"type": "object"}]}
schema_date(instance) ==
    is_type(instance, "string") \/ is_type(instance, "object")

\* "metadata": {"type": "object", "properties": {"date": ...}}
schema_metadata(instance) ==
    /\ is_type(instance, "object")
    /\ has_key(instance, "date") => schema_date(get(instance, "date"))

\* validate(instance=data, schema=SCHEMA) returns; FALSE: ValidationError.
validate(instance) ==
    /\ is_type(instance, "object")
    /\ has_key(instance, "name") /\ has_key(instance, "value")
    /\ is_type(get(instance, "name"), "string")
    /\ is_type(get(instance, "value"), "number")
    /\ has_key(instance, "tags") => schema_tags(get(instance, "tags"))
    /\ has_key(instance, "metadata") => schema_metadata(get(instance, "metadata"))

----------------------------------------------------------------------------
(* The body of the per-file loop *)

\* ",".join(items)
RECURSIVE join(_)
join(items) ==
    IF Len(items) = 0 THEN <<>>
    ELSE IF Len(items) = 1 THEN items[1].s
    ELSE items[1].s \o text(<<",">>) \o join(Tail(items))

\* The dict appended to rows.
make_row(p, data) ==
    LET metadata == IF isinstance(get(data, "metadata"), "map")
                      THEN get(data, "metadata") ELSE Map(<<>>, <<>>)
    IN  [file  |-> Str(path_str(p)),
         name  |-> get(data, "name"),
         value |-> get(data, "value"),
         tags  |-> IF isinstance(get(data, "tags"), "list")
                     THEN Str(join(get(data, "tags").items)) ELSE None,
         date  |-> get(metadata, "date")]

\* The row expression raises: .get on a non-dict, join over non-strings.
row_raises(data) ==
    \/ ~isinstance(data, "map")
    \/ /\ isinstance(get(data, "tags"), "list")
       /\ \E i \in 1..Len(get(data, "tags").items) :
              ~isinstance(get(data, "tags").items[i], "str")

\* A plausible slip: the row appended before the document is validated.
try_file_row_first(p) ==
    LET loaded == load_yaml_file(p)
        data == normalize_dates(loaded.data)
        file == Str(path_str(p))
    IN  IF loaded.raises
          THEN [row |-> <<>>, error |-> <<[file |-> file, error |-> "exception"]>>]
        ELSE IF row_raises(data)
          THEN [row |-> <<>>, error |-> <<[file |-> file, error |-> "exception"]>>]
        ELSE IF ~validate(data)
          THEN [row |-> <<make_row(p, data)>>,
                error |-> <<[file |-> file, error |-> "Schema validation failed"]>>]
        ELSE [row |-> <<make_row(p, data)>>, error |-> <<>>]

\* One pass of the try block: what it appends to rows and to errors.
try_file(p) ==
    LET loaded == load_yaml_file(p)
        data == normalize_dates(loaded.data)
        file == Str(path_str(p))
    IN  IF loaded.raises
          THEN [row |-> <<>>, error |-> <<[file |-> file, error |-> "exception"]>>]
        ELSE IF ~validate(data)
          THEN [row |-> <<>>,
                error |-> <<[file |-> file, error |-> "Schema validation failed"]>>]
        ELSE IF row_raises(data)
          THEN [row |-> <<>>, error |-> <<[file |-> file, error |-> "exception"]>>]
        ELSE [row |-> <<make_row(p, data)>>, error |-> <<>>]

----------------------------------------------------------------------------
(* pandas: the frame, its statistics, its CSV form *)

\* pd.DataFrame(rows): the columns are the keys of the dicts, in their
\* order; no dict, no column.
DataFrame(records) ==
    [columns |-> IF Len(records) = 0 THEN <<>>
                 ELSE <<"file", "name", "value", "tags", "date">>,
     records |-> records]

df_empty(df) == Len(df.records) = 0

\* Series.notna(): None and NaN are the missing values.
notna(v) == v.t \notin {"null", "nan"}

\* df["value"].dropna()
RECURSIVE dropna(_)
dropna(col) ==
    IF Len(col) = 0 THEN <<>>
    ELSE IF notna(col[1]) THEN <<col[1]>> \o dropna(Tail(col))
    ELSE dropna(Tail(col))

column(df, name) == [i \in 1..Len(df.records) |-> df.records[i][name]]

RECURSIVE sum(_)
sum(col) == IF Len(col) = 0 THEN 0 ELSE col[1].n + sum(Tail(col))

\* Series.count()
series_count(col) == Len(dropna(col))

has_inf(col) == \E i \in 1..Len(col) : col[i].t = "inf"

all_inf(col) == \A i \in 1..Len(col) : col[i].t = "inf"

Float(num, den) == [t |-> "float", num |-> num, den |-> den]

\* float(Series.mean()): the missing values are skipped; NaN when none is
\* left.
series_mean(col) ==
    LET present == dropna(col)
    IN  IF Len(present) = 0 THEN [t |-> "nan"]
        ELSE IF has_inf(present) THEN [t |-> "inf"]
        ELSE Float(sum(present), Len(present))

\* float(Series.min())
series_min(col) ==
    LET present == dropna(col)
    IN  IF Len(present) = 0 THEN [t |-> "nan"]
        ELSE IF all_inf(present) THEN [t |-> "inf"]
        ELSE LET i == CHOOSE i \in 1..Len(present) :
                        /\ present[i].t = "num"
                        /\ \A j \in 1..Len(present) :
                             present[j].t = "num" => present[i].n <= present[j].n
             IN  Float(present[i].n, 1)

\* float(Series.max())
series_max(col) ==
    LET present == dropna(col)
    IN  IF Len(present) = 0 THEN [t |-> "nan"]
        ELSE IF has_inf(present) THEN [t |-> "inf"]
        ELSE LET i == CHOOSE i \in 1..Len(present) :
                        \A j \in 1..Len(present) : present[i].n >= present[j].n
             IN  Float(present[i].n, 1)

\* df.to_csv(index=False): the header line names the columns, a missing
\* value becomes the empty field.
to_csv(df) ==
    [written |-> TRUE,
     header  |-> df.columns,
     data    |-> [i \in 1..Len(df.records) |->
                    [j \in 1..Len(df.columns) |->
                       IF notna(df.records[i][df.columns[j]])
                         THEN df.records[i][df.columns[j]] ELSE Str(<<>>)]]]

\* The summary dict that json.dumps serialises.
make_summary(df) ==
    [written      |-> TRUE,
     files_ok     |-> Len(rows),
     files_failed |-> Len(errors),
     value_count  |-> IF ~df_empty(df) THEN series_count(column(df, "value")) ELSE 0,
     value_mean   |-> IF ~df_empty(df) THEN series_mean(column(df, "value")) ELSE None,
     value_min    |-> IF ~df_empty(df) THEN series_min(column(df, "value")) ELSE None,
     value_max    |-> IF ~df_empty(df) THEN series_max(column(df, "value")) ELSE None,
     plots        |-> <<"plots/value_hist.png", "plots/value_by_name.png",
                        "plots/value_by_date.png">>,
     errors       |-> errors]

----------------------------------------------------------------------------
(* make_plots *)

\* df.dropna(subset=["date", "value"]) with the date_parsed column added.
RECURSIVE with_date_parsed(_)
with_date_parsed(records) ==
    IF Len(records) = 0 THEN <<>>
    ELSE LET r == records[1]
         IN  IF notna(r.date) /\ notna(r.value)
               THEN <<[file |-> r.file, name |-> r.name, value |-> r.value,
                       tags |-> r.tags, date |-> r.date,
                       date_parsed |-> safe_parse_date(r.date)]>>
                    \o with_date_parsed(Tail(records))
               ELSE with_date_parsed(Tail(records))

RECURSIVE dropna_date_parsed(_)
dropna_date_parsed(records) ==
    IF Len(records) = 0 THEN <<>>
    ELSE IF notna(records[1].date_parsed)
      THEN <<records[1]>> \o dropna_date_parsed(Tail(records))
    ELSE dropna_date_parsed(Tail(records))

remove_at(seq, i) == SubSeq(seq, 1, i - 1) \o SubSeq(seq, i + 1, Len(seq))

\* sort_values("date_parsed"); equal dates keep their order.
RECURSIVE sort_values(_)
sort_values(records) ==
    IF Len(records) = 0 THEN <<>>
    ELSE LET i == CHOOSE i \in 1..Len(records) :
                    /\ \A j \in 1..Len(records) :
                         ~date_lt(records[j].date_parsed, records[i].date_parsed)
                    /\ \A j \in 1..(i - 1) :
                         date_lt(records[i].date_parsed, records[j].date_parsed)
         IN  <<records[i]>> \o sort_values(remove_at(records, i))

\* The three charts: whether plt.hist raises, the files saved, and the
\* frame behind the value-over-time chart.
make_plots(df) ==
    LET values == column(df, "value")
        hist == \E i \in 1..Len(values) : notna(values[i])
        \* numpy refuses to bin a range that is not finite
        hist_raises == hist /\ has_inf(dropna(values))
        by_name == /\ \E i \in 1..Len(df.records) : notna(df.records[i].name)
                   /\ \E i \in 1..Len(df.records) :
                        notna(df.records[i].name) /\ notna(df.records[i].value)
        by_date == \E i \in 1..Len(df.records) : notna(df.records[i].date)
        df_date == IF by_date
                     THEN sort_values(dropna_date_parsed(with_date_parsed(df.records)))
                     ELSE <<>>
    IN  IF hist_raises
          THEN [raises |-> TRUE, saved |-> {}, df_date |-> <<>>]
          ELSE [raises |-> FALSE,
                saved |-> {f \in {"value_hist.png"} : hist}
                            \cup {f \in {"value_by_name.png"} : by_name}
                            \cup {f \in {"value_by_date.png"} : Len(df_date) > 0},
                df_date |-> df_date]

----------------------------------------------------------------------------
(* main() *)

NoExit == [kind |-> "", count |-> 0, see |-> ""]

\* The directory trees the run can start from: at most MaxFiles entries
\* below one input directory, each holding one of the file contents.
Init ==
    /\ fs \in UNION {[S -> 1..Len(file_contents)] :
                       S \in {T \in SUBSET all_paths :
                                /\ Cardinality(T) <= MaxFiles
                                /\ \E dir \in input_dirs :
                                      \A path \in T : below(dir, path)}}
    /\ pc = "mkdir"
    /\ out_dir_created = FALSE
    /\ yaml_files = <<>>
    /\ idx = 0
    /\ rows = <<>>
    /\ errors = <<>>
    /\ csv = [written |-> FALSE]
    /\ summary_json = [written |-> FALSE]
    /\ plots = {}
    /\ date_series = <<>>
    /\ exit_code = -1
    /\ exit_msg = NoExit

\* out_dir.mkdir(parents=True, exist_ok=True)
Mkdir ==
    /\ pc = "mkdir"
    /\ out_dir_created' = TRUE
    /\ pc' = "discover"
    /\ UNCHANGED <<fs, yaml_files, idx, rows, errors, csv, summary_json,
                   plots, date_series, exit_code, exit_msg>>

\* A plausible slip: no check that anything was found.
DiscoverUnchecked ==
    /\ pc = "discover"
    /\ yaml_files' = sorted(rglob_yaml(DOMAIN fs))
    /\ idx' = 1
    /\ pc' = "loop"
    /\ UNCHANGED <<fs, out_dir_created, rows, errors, csv, summary_json,
                   plots, date_series, exit_code, exit_msg>>

\* yaml_files = sorted(...); SystemExit when the list is empty.
Discover ==
    /\ pc = "discover"
    /\ yaml_files' = sorted(rglob_yaml(DOMAIN fs))
    /\ IF Len(yaml_files') = 0
         THEN /\ pc' = "exit"
              /\ exit_code' = 1
              /\ exit_msg' = [kind |-> "No YAML files found in", count |-> 0,
                              see |-> "input_dir"]
              /\ idx' = idx
         ELSE /\ pc' = "loop"
              /\ idx' = 1
              /\ UNCHANGED <<exit_code, exit_msg>>
    /\ UNCHANGED <<fs, out_dir_created, rows, errors, csv, summary_json,
                   plots, date_series>>

\* A plausible slip: a failing file ends the run.
ProcessFileAborting ==
    /\ pc = "loop"
    /\ idx <= Len(yaml_files)
    /\ LET r == try_file(yaml_files[idx])
       IN  /\ rows' = rows \o r.row
           /\ errors' = errors \o r.error
           /\ IF Len(r.error) > 0
                THEN /\ pc' = "exit"
                     /\ exit_code' = 1
                     /\ exit_msg' = [kind |-> "Traceback", count |-> 0, see |-> ""]
                ELSE UNCHANGED <<pc, exit_code, exit_msg>>
    /\ idx' = idx + 1
    /\ UNCHANGED <<fs, out_dir_created, yaml_files, csv, summary_json,
                   plots, date_series>>

\* One iteration of "for p in yaml_files", its except clauses included.
ProcessFile ==
    /\ pc = "loop"
    /\ idx <= Len(yaml_files)
    /\ LET r == try_file(yaml_files[idx])
       IN  /\ rows' = rows \o r.row
           /\ errors' = errors \o r.error
    /\ idx' = idx + 1
    /\ UNCHANGED <<fs, pc, out_dir_created, yaml_files, csv, summary_json,
                   plots, date_series, exit_code, exit_msg>>

\* df = pd.DataFrame(rows); df.to_csv(out_dir / "summary.csv", index=False)
ToCsv ==
    /\ pc = "loop"
    /\ idx > Len(yaml_files)
    /\ csv' = to_csv(DataFrame(rows))
    /\ pc' = "summary"
    /\ UNCHANGED <<fs, out_dir_created, yaml_files, idx, rows, errors,
                   summary_json, plots, date_series, exit_code, exit_msg>>

\* summary = {...}; (out_dir / "summary.json").write_text(json.dumps(summary))
WriteSummary ==
    /\ pc = "summary"
    /\ summary_json' = make_summary(DataFrame(rows))
    /\ pc' = "plots"
    /\ UNCHANGED <<fs, out_dir_created, yaml_files, idx, rows, errors, csv,
                   plots, date_series, exit_code, exit_msg>>

\* if not df.empty: make_plots(df, plots_dir); an exception of plt.hist
\* is caught nowhere and ends the run with a traceback.
MakePlots ==
    /\ pc = "plots"
    /\ LET df == DataFrame(rows)
           res == make_plots(df)
       IN  IF df_empty(df)
             THEN /\ pc' = "decide"
                  /\ UNCHANGED <<plots, date_series, exit_code, exit_msg>>
           ELSE IF res.raises
             THEN /\ pc' = "exit"
                  /\ exit_code' = 1
                  /\ exit_msg' = [kind |-> "Traceback", count |-> 0, see |-> ""]
                  /\ UNCHANGED <<plots, date_series>>
           ELSE /\ pc' = "decide"
                /\ plots' = res.saved
                /\ date_series' = res.df_date
                /\ UNCHANGED <<exit_code, exit_msg>>
    /\ UNCHANGED <<fs, out_dir_created, yaml_files, idx, rows, errors, csv,
                   summary_json>>

\* if errors: raise SystemExit(...); otherwise main() returns.
Decide ==
    /\ pc = "decide"
    /\ pc' = "exit"
    /\ IF Len(errors) > 0
         THEN /\ exit_code' = 1
              /\ exit_msg' = [kind |-> "Validation/parse errors in",
                              count |-> Len(errors), see |-> "summary.json"]
         ELSE /\ exit_code' = 0
              /\ exit_msg' = NoExit
    /\ UNCHANGED <<fs, out_dir_created, yaml_files, idx, rows, errors, csv,
                   summary_json, plots, date_series>>

Next ==
    \/ Mkdir
    \/ Discover
    \/ ProcessFile
    \/ ToCsv
    \/ WriteSummary
    \/ MakePlots
    \/ Decide

Spec == Init /\ [][Next]_vars

----------------------------------------------------------------------------
(* Vocabulary of the properties *)

discovered == rglob_yaml(DOMAIN fs)

LoopFinished == Len(yaml_files) > 0 /\ idx > Len(yaml_files)

file_of(p) == Str(path_str(p))

rows_of(p) == {i \in 1..Len(rows) : rows[i].file = file_of(p)}

errors_of(p) == {i \in 1..Len(errors) : errors[i].file = file_of(p)}

\* The file loads, and its normalized document passes the schema.
accepted(p) ==
    /\ ~load_yaml_file(p).raises
    /\ validate(normalize_dates(load_yaml_file(p).data))

\* The mapping without one of its keys.
drop_key(obj, key) ==
    LET keep == SelectSeq([i \in 1..Len(obj.keys) |-> i],
                          LAMBDA i : obj.keys[i] # key)
    IN  Map([i \in 1..Len(keep) |-> obj.keys[keep[i]]],
            [i \in 1..Len(keep) |-> obj.vals[keep[i]]])

\* The mapping with the value of one of its keys replaced.
with_key(obj, key, val) ==
    Map(obj.keys, [i \in 1..Len(obj.keys) |->
                     IF obj.keys[i] = key THEN val ELSE obj.vals[i]])

\* The file holds a document that is valid but for its tags, a plain string.
scalar_tags(p) ==
    LET loaded == load_yaml_file(p)
    IN  /\ ~loaded.raises
        /\ isinstance(loaded.data, "map")
        /\ has_key(loaded.data, "tags")
        /\ isinstance(get(loaded.data, "tags"), "str")
        /\ validate(normalize_dates(drop_key(loaded.data, "tags")))

\* p holds metadata.date as the native date 2026-01-15 and q holds the same
\* document with the string "2026-01-15" in its place.
date_twins(p, q) ==
    LET a == load_yaml_file(p)
        b == load_yaml_file(q)
    IN  /\ ~a.raises /\ ~b.raises
        /\ isinstance(a.data, "map")
        /\ isinstance(get(a.data, "metadata"), "map")
        /\ get(get(a.data, "metadata"), "date") = date_2026_01_15
        /\ b.data = with_key(a.data, "metadata",
                             with_key(get(a.data, "metadata"), "date", str_2026_01_15))

\* p before q, comparing component by component.
RECURSIVE components_before(_, _)
components_before(p, q) ==
    IF Len(p) = 0 THEN Len(q) > 0
    ELSE IF Len(q) = 0 THEN FALSE
    ELSE IF p[1] = q[1] THEN components_before(Tail(p), Tail(q))
    ELSE str_lt(p[1], q[1])

\* The entries name discovered files, in component order.
in_component_order(entries) ==
    \A i, j \in 1..Len(entries) :
        i < j => \E p, q \in discovered :
                    /\ entries[i].file = file_of(p)
                    /\ entries[j].file = file_of(q)
                    /\ components_before(p, q)

\* The entries are in the order of their file names taken as strings.
in_string_order(entries) ==
    \A i, j \in 1..Len(entries) :
        i < j => str_lt(entries[i].file.s, entries[j].file.s)

present_values == dropna([i \in 1..Len(rows) |-> rows[i].value])

----------------------------------------------------------------------------
(* Properties *)

\* C1: once the per-file loop has finished, every discovered file has
\* exactly one entry: a Row and no error when it loads, normalizes and
\* validates, an error and no Row otherwise; files_ok + files_failed is the
\* number of discovered files.
C1_OneEntryPerFile ==
    LoopFinished =>
        /\ \A p \in discovered :
              IF accepted(p)
                THEN Cardinality(rows_of(p)) = 1 /\ errors_of(p) = {}
                ELSE rows_of(p) = {} /\ Cardinality(errors_of(p)) = 1
        /\ Len(rows) + Len(errors) = Cardinality(discovered)
        /\ summary_json.written =>
              summary_json.files_ok + summary_json.files_failed
                = Cardinality(discovered)

\* A finished run with an accepted file and a file lacking "value".
C1_Witness ==
    /\ pc = "exit"
    /\ summary_json.written
    /\ \E p, q \in discovered :
          /\ accepted(p)
          /\ ~load_yaml_file(q).raises
          /\ isinstance(load_yaml_file(q).data, "map")
          /\ ~has_key(load_yaml_file(q).data, "value")
          /\ Cardinality(errors_of(q)) = 1

\* C2: with at least one discovered file the run ends with exit code 0
\* exactly when the error list is empty, and with failed files it ends
\* non-zero with the message that counts them and names summary.json.
C2_ExitCodeFollowsErrors ==
    (pc = "exit" /\ Len(yaml_files) > 0) =>
        /\ exit_code = 0 <=> Len(errors) = 0
        /\ Len(errors) > 0 =>
              /\ exit_msg.kind = "Validation/parse errors in"
              /\ exit_msg.count = Len(errors)
              /\ exit_msg.see = "summary.json"

\* C3: a failing file never ends the run: with at least one discovered
\* file, when the exit decision is taken every file has been processed and
\* summary.csv and summary.json have been written, however many failed.
C3_FailuresNeverAbort ==
    (Len(yaml_files) > 0 /\ pc \in {"decide", "exit"}) =>
        /\ idx > Len(yaml_files)
        /\ Len(rows) + Len(errors) = Len(yaml_files)
        /\ csv.written
        /\ summary_json.written
        /\ summary_json.errors = errors

\* The decision point of a run in which both of two files failed.
C3_Witness ==
    /\ pc = "decide"
    /\ Len(yaml_files) >= 2
    /\ Len(errors) = Len(yaml_files)
    /\ csv.written /\ summary_json.written

\* C4: with no matching file the run ends non-zero with nothing written or
\* created below the output directory and no file processed, and no other
\* run ends without its artifacts.
C4_NoFilesAbortsBeforeOutput ==
    /\ (discovered = {} /\ pc \notin {"mkdir", "discover"}) =>
          /\ pc = "exit"
          /\ exit_code # 0
          /\ exit_msg.kind = "No YAML files found in"
    /\ discovered = {} =>
          /\ ~csv.written /\ ~summary_json.written /\ plots = {}
          /\ idx = 0 /\ rows = <<>> /\ errors = <<>>
    /\ (pc = "exit" /\ (~csv.written \/ ~summary_json.written)) =>
          discovered = {}

\* The run over a directory that holds only a file that does not match.
C4_Witness ==
    /\ pc = "exit"
    /\ DOMAIN fs # {}
    /\ discovered = {}
    /\ out_dir_created

\* C5 as stated: a document valid but for its scalar-string tags yields a
\* Row with tags null and no error.
C5_ScalarTagsAccepted ==
    LoopFinished =>
        \A p \in discovered :
            scalar_tags(p) =>
                /\ \E i \in rows_of(p) : rows[i].tags = None
                /\ errors_of(p) = {}

\* C5 amended: such a document fails schema validation: it yields one
\* error and no Row; a Row has tags null only when its document has no
\* tags field.
C5_ScalarTagsRejected ==
    LoopFinished =>
        /\ \A p \in discovered :
              scalar_tags(p) =>
                  /\ rows_of(p) = {}
                  /\ Cardinality(errors_of(p)) = 1
                  /\ \A i \in errors_of(p) :
                        errors[i].error = "Schema validation failed"
        /\ \A p \in discovered :
              \A i \in rows_of(p) :
                  rows[i].tags = None => ~has_key(load_yaml_file(p).data, "tags")

\* A finished loop over a file with scalar tags and a file without tags.
C5_Witness ==
    /\ LoopFinished
    /\ \E p \in discovered : scalar_tags(p) /\ errors_of(p) # {}
    /\ \E i \in 1..Len(rows) : rows[i].tags = None

\* C6: value_count is the number of Rows with a value present, mean, min
\* and max are taken over those Rows, and with no such Row the count is 0
\* and the three are null.
C6_SummaryStatistics ==
    summary_json.written =>
        /\ summary_json.value_count = Len(present_values)
        /\ IF Len(present_values) = 0
             THEN /\ summary_json.value_mean = None
                  /\ summary_json.value_min = None
                  /\ summary_json.value_max = None
             ELSE has_inf(present_values) \/
                  /\ summary_json.value_mean.num * Len(present_values)
                       = sum(present_values) * summary_json.value_mean.den
                  /\ \E i \in 1..Len(present_values) :
                        summary_json.value_min.num
                          = present_values[i].n * summary_json.value_min.den
                  /\ \A i \in 1..Len(present_values) :
                        summary_json.value_min.num
                          <= present_values[i].n * summary_json.value_min.den
                  /\ \E i \in 1..Len(present_values) :
                        summary_json.value_max.num
                          = present_values[i].n * summary_json.value_max.den
                  /\ \A i \in 1..Len(present_values) :
                        summary_json.value_max.num
                          >= present_values[i].n * summary_json.value_max.den

\* C7: the date of every Row is null or a string.
C7_RowDateIsStringOrNull ==
    \A i \in 1..Len(rows) : rows[i].date.t \in {"null", "str"}

\* C8: a document with the native date 2026-01-15 and its twin with the
\* string "2026-01-15" are both accepted with the same Row date, and where
\* the value-over-time chart is built they enter it with the same date and
\* value.
C8_NativeAndStringDateAgree ==
    \A p, q \in discovered :
        date_twins(p, q) =>
            /\ LoopFinished =>
                  \E i \in rows_of(p) : \E j \in rows_of(q) :
                      /\ errors_of(p) = {} /\ errors_of(q) = {}
                      /\ rows[i].date = rows[j].date
                      /\ rows[i].date = str_2026_01_15
            /\ (pc = "decide" \/ (pc = "exit" /\ exit_msg.kind # "Traceback")) =>
                  \E a, b \in 1..Len(date_series) :
                      /\ date_series[a].file = file_of(p)
                      /\ date_series[b].file = file_of(q)
                      /\ date_series[a].date_parsed = date_2026_01_15
                      /\ date_series[b].date_parsed = date_2026_01_15
                      /\ date_series[a].value = date_series[b].value

\* A run that ended well over the two twins.
C8_Witness ==
    /\ pc = "exit"
    /\ exit_code = 0
    /\ "value_by_date.png" \in plots
    /\ \E p, q \in discovered : date_twins(p, q)

\* C9 as stated: the rows and the errors are in the order of their file
\* paths as strings.
C9_RowsInStringOrder ==
    /\ in_string_order(rows)
    /\ in_string_order(errors)

\* C9 amended: the files are taken one at a time in the order of their
\* path components, and the rows and the errors keep that order.
C9_RowsInComponentOrder ==
    /\ \A i, j \in 1..Len(yaml_files) :
          i < j => components_before(yaml_files[i], yaml_files[j])
    /\ pc = "loop" =>
          \A k \in 1..Len(yaml_files) :
              (rows_of(yaml_files[k]) \cup errors_of(yaml_files[k]) # {}) <=> k < idx
    /\ in_component_order(rows)
    /\ in_component_order(errors)
    /\ Len(rows) + Len(errors) <= Cardinality(discovered)

\* Two rows whose order by components is not their order as strings.
C9_Witness ==
    /\ LoopFinished
    /\ \E i, j \in 1..Len(rows) :
          i < j /\ str_lt(rows[j].file.s, rows[i].file.s)

\* C10: a written summary.csv has the header file,name,value,tags,date and
\* one data row for each accepted document, none for the others.
C10_CsvHeaderAndRows ==
    csv.written =>
        /\ csv.header = <<"file", "name", "value", "tags", "date">>
        /\ Len(csv.data) = Cardinality({p \in discovered : accepted(p)})

====
